---- MODULE Spec2Model ----
(***************************************************************************)
(* FileRune Fusion (packages/fusion): Split, Check and Merge over a chunk  *)
(* directory.  The filesystem is modelled as three paths: the input file   *)
(* of Split (in_file), the chunk directory (out_dir of Split, in_dir of    *)
(* Check and Merge: dir_kind and dir) and the output path of Merge         *)
(* (out_file).  Split and Merge advance one filesystem call at a time;     *)
(* Check, which only reads, is one step.  Split reads its input through a  *)
(* buffered reader; Merge is modelled in its two conventions (Merge::run   *)
(* and the tokio run_async).  An invocation of Split or Merge has at most  *)
(* one failing filesystem call.                                            *)
(*                                                                         *)
(* File names are strings of characters; a character is a number: 0..9 are *)
(* the decimal digits, PlusSign is '+', anything larger is another         *)
(* character.  A file's content is a sequence of bytes.                    *)
(***************************************************************************)
EXTENDS Naturals, Integers, Sequences, FiniteSets

VARIABLES
    in_file,    \* node at Split's in_file path: [kind, data]
    dir_kind,   \* what is at the chunk directory path: "absent", "dir" or "file"
    dir,        \* entries of the chunk directory: [Names -> node]
    out_file,   \* node at Merge's out_file path: [kind, data]
    split,      \* the Split invocation: locals of Split::run and its result
    check,      \* the last Check invocation: options and result
    merge,      \* the Merge invocation: locals of Merge::run and its result
    dir0,       \* history: the chunk directory, out_file and in_file at the start
    modified    \* history: the chunk directory was changed after Split returned

vars == <<in_file, dir_kind, dir, out_file, split, check, merge, dir0, modified>>

----------------------------------------------------------------------------
(* Bounds of the model *)

\* longest input file of Split, in bytes
MaxFileSize == 3
\* largest chunk_size option of Split
MaxChunkSize == 3
\* largest buffer_capacity option of Merge
MaxBufferCapacity == 2
\* largest file_size option of Check
MaxCheckSize == 4
\* largest total_chunks option of Check
MaxCheckChunks == 3
\* longest content of a file placed in the chunk directory by the environment
MaxEntryLen == 1
\* most entries the environment places in the chunk directory
MaxEntries == 3
\* longest output file that Merge still copies into itself
MaxSelfCopy == 3

Byte == {0, 1}

Min(a, b) == IF a < b THEN a ELSE b

SeqsUpTo(S, n) == UNION {[1..k -> S] : k \in 0..n}

----------------------------------------------------------------------------
(* Names and nodes *)

PlusSign == 10

RECURSIVE to_string(_)
\* usize::to_string: decimal digits, most significant first, no padding
to_string(n) == IF n < 10 THEN <<n>> ELSE Append(to_string(n \div 10), n % 10)

RECURSIVE ParseDigits(_, _)
\* the digit loop of str::parse::<usize>: -1 stands for Err
ParseDigits(s, acc) ==
    IF s = <<>> THEN acc
    ELSE IF Head(s) > 9 THEN -1
    ELSE ParseDigits(Tail(s), acc * 10 + Head(s))

\* str::parse::<usize>: an optional '+', then one or more decimal digits
\* (leading zeros are accepted); -1 stands for Err.  Names are far too short
\* to overflow usize.
ParseUsize(s) ==
    IF s = <<>> THEN -1
    ELSE IF Head(s) = PlusSign
         THEN (IF Len(s) = 1 THEN -1 ELSE ParseDigits(Tail(s), 0))
         ELSE ParseDigits(s, 0)

\* a character that is no digit and no sign
LetterX == 11

\* names besides the unpadded chunk indices: "10", "01" and "x"
ExtraNames == {<<1, 0>>, <<0, 1>>, <<LetterX>>}

\* every name of the model: the domain of dir
Names == {to_string(i) : i \in 0..MaxFileSize} \cup ExtraNames

Absent == [kind |-> "absent", data |-> <<>>]
Directory == [kind |-> "dir", data |-> <<>>]
\* a directory that is not empty: d stands for what it holds
Tree(d) == [kind |-> "dir", data |-> d]
File(d) == [kind |-> "file", data |-> d]

EmptyDir == [n \in Names |-> Absent]

\* the node a path of the chunk directory resolves to
Entry(name) ==
    IF dir_kind = "dir" /\ name \in Names THEN dir[name] ELSE Absent

----------------------------------------------------------------------------
(* Split::run and the tokio run_async, which makes the same calls in the   *)
(* same order with an .await at each of them                               *)

None == <<>>
Some(x) == <<x>>

\* where a path given to an operation points: outside the chunk directory,
\* at the chunk directory itself, or at a name inside the chunk directory
OutsideDir == [at |-> "outside", name |-> <<>>]
TheDirItself == [at |-> "in_dir", name |-> <<>>]
InsideDir(name) == [at |-> "inside", name |-> name]

\* the filesystem call of one invocation that fails, if any.  Of Merge:
\*   remove      remove_file / remove_dir_all of what is at out_file
\*   mkdir       create_dir_all of out_file's parent
\*   open_out    open(create, truncate, write) of out_file
\*   read_dir    read_dir of in_dir
\*   entry       the directory iterator yields Err for the entry called name
\*   open_chunk  open(read) of the chunk called name
\*   read_chunk  read of the chunk called name, from byte offset at on
\*   write       write to the output file, once it holds at bytes
\* Of Split:
\*   mkdir       create_dir_all of out_dir
\*   open_in     open(read) of in_file
\*   metadata    metadata of the opened in_file
\*   read        read of in_file, from file position at on
\*   open_chunk  open(create, truncate, write) of the chunk called name
\*   write       write to the chunk called name, once it holds at bytes
NoFault == [kind |-> "none", name |-> <<>>, at |-> 0]
Fault(kind, name, at) == [kind |-> kind, name |-> name, at |-> at]

SplitIdle ==
    [pc |-> "idle", fault |-> NoFault, in_path |-> OutsideDir,
     in_set |-> FALSE, out_set |-> FALSE, chunk_size |-> 0,
     buffer_capacity |-> 0, file_size |-> 0, pos |-> 0, reader |-> <<>>,
     buffer |-> <<>>, offset |-> 0, total_chunks |-> 0, result |-> None,
     previous |-> None]

SplitErr(code) == [tag |-> "Err", code |-> code]

\* a result that counts the chunk attempt that read nothing
SplitOkCountsLastAttempt(file_size, total_chunks) ==
    [tag |-> "Ok", file_size |-> file_size, total_chunks |-> total_chunks + 1]

\* Ok(SplitResult { file_size, total_chunks })
SplitOk(file_size, total_chunks) ==
    [tag |-> "Ok", file_size |-> file_size, total_chunks |-> total_chunks]

\* a validation that looks at the output directory first
SplitPrecheckOutputFirst(in_set, out_set) ==
    IF ~out_set THEN "OutDirNotSet"
    ELSE IF dir_kind = "file" THEN "OutDirNotDir"
    ELSE IF ~in_set THEN "InFileNotSet"
    ELSE IF in_file.kind = "absent" THEN "InFileNotFound"
    ELSE IF in_file.kind # "file" THEN "InFileNotFile"
    ELSE "ok"

\* the option and path checks at the head of Split::run, in the code's order
SplitPrecheck(in_set, out_set) ==
    IF ~in_set THEN "InFileNotSet"
    ELSE IF in_file.kind = "absent" THEN "InFileNotFound"
    ELSE IF in_file.kind # "file" THEN "InFileNotFile"
    ELSE IF ~out_set THEN "OutDirNotSet"
    ELSE IF dir_kind = "file" THEN "OutDirNotDir"
    ELSE "ok"

\* vec![0; chunk_size]
ZeroBuffer(n) == [i \in 1..n |-> 0]

\* the bytes of buffer[offset..offset+n] after a read of n bytes at pos
ReadInto(buffer, offset, data, pos, n) ==
    [i \in 1..Len(buffer) |->
        IF i > offset /\ i <= offset + n THEN data[pos + (i - offset)]
        ELSE buffer[i]]

\* a write of the whole buffer, whatever was read into it
ChunkBytesWholeBuffer(buffer, offset) == buffer

\* &buffer[..offset]: what write_all is given
ChunkBytes(buffer, offset) == SubSeq(buffer, 1, offset)

\* a failing call that is made again instead of ending the invocation
SplitFailedRetries(code) == split

\* return Err(SplitError::code), or the same through map_err and ?
SplitFailed(code) ==
    [split EXCEPT !.pc = "done", !.result = Some(SplitErr(code))]

\* the head of a Split invocation up to the chunk loop: validation,
\* create_dir_all of an absent out_dir, open(read) of in_file, metadata,
\* BufReader::with_capacity, the chunk buffer
SplitBegin(fault, in_path, in_set, out_set, chunk_size, buffer_capacity, previous) ==
    LET pre == SplitPrecheck(in_set, out_set)
        code == IF pre # "ok" THEN pre
                ELSE IF dir_kind = "absent" /\ fault.kind = "mkdir"
                THEN "OutDirNotCreated"
                ELSE IF fault.kind = "open_in" THEN "InFileNotOpened"
                ELSE IF fault.kind = "metadata" THEN "InFileNotRead"
                ELSE "ok"
        called == [SplitIdle EXCEPT !.fault = fault, !.in_path = in_path,
                       !.in_set = in_set, !.out_set = out_set,
                       !.chunk_size = chunk_size,
                       !.buffer_capacity = buffer_capacity,
                       !.previous = previous]
    IN /\ split' = IF code = "ok"
                   THEN [called EXCEPT !.pc = "loop",
                                       !.file_size = Len(in_file.data),
                                       !.buffer = ZeroBuffer(chunk_size)]
                   ELSE [called EXCEPT !.pc = "done",
                                       !.result = Some(SplitErr(code))]
       /\ IF pre = "ok" /\ code # "OutDirNotCreated"
          THEN /\ dir_kind' = "dir"
               /\ dir' = IF dir_kind = "absent" THEN EmptyDir ELSE dir
          ELSE UNCHANGED <<dir_kind, dir>>

\* a call of Split::run with in_file outside out_dir and no failing call.
\* The reader is taken without a buffer of its own: every read goes to the
\* file, and returns any count a buffered reader could return.
SplitStart(in_set, out_set, chunk_size) ==
    /\ split.pc = "idle"
    /\ merge.pc = "idle"
    /\ SplitBegin(NoFault, OutsideDir, in_set, out_set, chunk_size, 0,
                  split.previous)
    /\ UNCHANGED <<in_file, out_file, check, merge, dir0, modified>>

\* the while condition of the inner loop
SplitMoreToRead == split.offset < split.chunk_size

\* the counts a read of the input file into k bytes may return: 0 at end of
\* file (or past it) and for k = 0, otherwise anything from 1 to k and what
\* is left; reads that fail from fault.at on return nothing beyond it
SplitFileReadCounts(k) ==
    LET size == Len(in_file.data)
        readable == IF split.fault.kind = "read"
                    THEN Min(size, split.fault.at) ELSE size
        left == readable - split.pos
    IN IF left <= 0 \/ k = 0 THEN {0} ELSE 1..Min(k, left)

\* the counts one reader.read(&mut buffer[offset..]) may return when the
\* BufReader passes the read on to the file
SplitReadCounts == SplitFileReadCounts(split.chunk_size - split.offset)

\* the read of the input file fails
SplitReadFails ==
    split.fault.kind = "read" /\ split.pos >= split.fault.at

\* BufReader::read passes the read on to the file when it holds nothing and
\* is asked for at least its capacity; otherwise it serves the read from its
\* own buffer, which it first fills from the file when it is empty
SplitReadsDirectly ==
    /\ split.reader = <<>>
    /\ split.chunk_size - split.offset >= split.buffer_capacity

\* one pass of the inner loop: reader.read(&mut buffer[offset..])
SplitRead ==
    /\ split.pc = "loop"
    /\ SplitMoreToRead
    /\ IF split.reader = <<>> /\ SplitReadFails
       THEN split' = SplitFailed("InFileNotRead")
       ELSE IF SplitReadsDirectly
       THEN \E n \in SplitReadCounts :
          split' = IF n = 0
                   THEN [split EXCEPT !.pc = "emit"]
                   ELSE [split EXCEPT
                           !.buffer = ReadInto(split.buffer, split.offset,
                                               in_file.data, split.pos, n),
                           !.offset = split.offset + n,
                           !.pos = split.pos + n]
       ELSE IF split.reader = <<>>
       THEN \E m \in SplitFileReadCounts(split.buffer_capacity) :
          LET fetched == SubSeq(in_file.data, split.pos + 1, split.pos + m)
              n == Min(m, split.chunk_size - split.offset)
          IN split' = IF m = 0
                      THEN [split EXCEPT !.pc = "emit"]
                      ELSE [split EXCEPT
                              !.buffer = ReadInto(split.buffer, split.offset,
                                                  fetched, 0, n),
                              !.offset = split.offset + n,
                              !.pos = split.pos + m,
                              !.reader = SubSeq(fetched, n + 1, m)]
       ELSE LET n == Min(Len(split.reader), split.chunk_size - split.offset)
            IN split' = [split EXCEPT
                           !.buffer = ReadInto(split.buffer, split.offset,
                                               split.reader, 0, n),
                           !.offset = split.offset + n,
                           !.reader = SubSeq(split.reader, n + 1,
                                             Len(split.reader))]
    /\ UNCHANGED <<in_file, dir_kind, dir, out_file, check, merge, dir0, modified>>

\* the inner loop is over: by break on Ok(0) or by offset reaching chunk_size
SplitAtChunkEnd ==
    \/ split.pc = "emit"
    \/ split.pc = "loop" /\ ~SplitMoreToRead

\* if offset == 0 { break }  ...  Ok(SplitResult { file_size, total_chunks })
SplitReturn ==
    /\ SplitAtChunkEnd
    /\ split.offset = 0
    /\ split' = [split EXCEPT !.pc = "done",
                   !.result = Some(SplitOk(split.file_size, split.total_chunks))]
    /\ UNCHANGED <<in_file, dir_kind, dir, out_file, check, merge, dir0, modified>>

\* chunk names that start at 1
SplitOutputPathFromOne == to_string(split.total_chunks + 1)

\* out_dir.join(total_chunks.to_string())
SplitOutputPath == to_string(split.total_chunks)

\* the chunk file being written is the input file: in_file is out_dir/name
SplitOntoInput == split.in_path = InsideDir(SplitOutputPath)

\* open(create, truncate, write) of out_dir/total_chunks
SplitOpenChunk ==
    /\ SplitAtChunkEnd
    /\ split.offset # 0
    /\ IF \/ Entry(SplitOutputPath).kind = "dir"
          \/ /\ split.fault.kind = "open_chunk"
             /\ split.fault.name = SplitOutputPath
       THEN /\ split' = SplitFailed("OutFileNotOpened")
            /\ UNCHANGED <<in_file, dir>>
       ELSE /\ dir' = [dir EXCEPT ![SplitOutputPath] = File(<<>>)]
            /\ in_file' = IF SplitOntoInput THEN File(<<>>) ELSE in_file
            /\ split' = [split EXCEPT !.pc = "write"]
    /\ UNCHANGED <<dir_kind, out_file, check, merge, dir0, modified>>

\* BufWriter::with_capacity, write_all(&buffer[..offset]), flush, and the
\* file closed at the end of the iteration; a write the file does not take
\* in full leaves what it took
SplitWriteChunk ==
    /\ split.pc = "write"
    /\ LET bytes == ChunkBytes(split.buffer, split.offset)
           taken == IF /\ split.fault.kind = "write"
                       /\ split.fault.name = SplitOutputPath
                    THEN SubSeq(bytes, 1, Min(Len(bytes), split.fault.at))
                    ELSE bytes
       IN /\ dir' = [dir EXCEPT ![SplitOutputPath] = File(taken)]
          /\ in_file' = IF SplitOntoInput THEN File(taken) ELSE in_file
          /\ split' = IF taken = bytes
                      THEN [split EXCEPT !.pc = "loop", !.offset = 0,
                               !.total_chunks = split.total_chunks + 1]
                      ELSE SplitFailed("OutFileNotWritten")
    /\ UNCHANGED <<dir_kind, out_file, check, merge, dir0, modified>>

----------------------------------------------------------------------------
(* Check::run and its run_async variants *)

CheckNone == [conv |-> "none"]

\* a validation that looks at file_size and total_chunks first
CheckPrecheckOptionsFirst(in_set, file_size, total_chunks) ==
    IF file_size = <<>> THEN "FileSizeNotSet"
    ELSE IF total_chunks = <<>> THEN "TotalChunksNotSet"
    ELSE IF ~in_set THEN "InDirNotSet"
    ELSE IF dir_kind = "absent" THEN "InDirNotFound"
    ELSE IF dir_kind # "dir" THEN "InDirNotDir"
    ELSE "ok"

\* the option and path checks at the head of Check::run, in the code's order
CheckPrecheck(in_set, file_size, total_chunks) ==
    IF ~in_set THEN "InDirNotSet"
    ELSE IF dir_kind = "absent" THEN "InDirNotFound"
    ELSE IF dir_kind # "dir" THEN "InDirNotDir"
    ELSE IF file_size = None THEN "FileSizeNotSet"
    ELSE IF total_chunks = None THEN "TotalChunksNotSet"
    ELSE "ok"

\* a scan that looks for chunk i under the name of chunk i + 1
CheckTargetOffByOne(i) == Entry(to_string(i + 1))

\* in_dir.join(i.to_string()): the node Check opens for index i
CheckTarget(i) == Entry(to_string(i))

RECURSIVE CheckScanShortCircuit(_, _, _, _)
\* a scan that stops at the first missing index
CheckScanShortCircuit(i, total_chunks, actual_size, missing) ==
    IF i >= total_chunks
    THEN [actual_size |-> actual_size, missing |-> missing]
    ELSE IF CheckTarget(i).kind # "file"
    THEN [actual_size |-> actual_size, missing |-> Append(missing, i)]
    ELSE CheckScanShortCircuit(i + 1, total_chunks,
                               actual_size + Len(CheckTarget(i).data), missing)

RECURSIVE CheckScan(_, _, _, _)
\* for i in 0..total_chunks: open in_dir/i; a failed open or a node that is
\* not a regular file pushes i to missing, otherwise its length is added
CheckScan(i, total_chunks, actual_size, missing) ==
    IF i >= total_chunks
    THEN [actual_size |-> actual_size, missing |-> missing]
    ELSE LET target_file == CheckTarget(i) IN
         IF target_file.kind = "absent"
         THEN CheckScan(i + 1, total_chunks, actual_size, Append(missing, i))
         ELSE IF target_file.kind # "file"
         THEN CheckScan(i + 1, total_chunks, actual_size, Append(missing, i))
         ELSE CheckScan(i + 1, total_chunks,
                        actual_size + Len(target_file.data), missing)

CheckErr(code) == [tag |-> "Err", error |-> [variant |-> code]]

\* Ok(CheckResult { success, error })
CheckOkResult(success, error) ==
    [tag |-> "Ok", value |-> [success |-> success, error |-> error]]

\* a Check that compares the sizes before it looks at the missing list
CheckResultOfSizeFirst(file_size, total_chunks) ==
    LET scan == CheckScan(0, total_chunks, 0, <<>>) IN
    IF scan.actual_size # file_size
    THEN CheckOkResult(FALSE,
             Some([error_type |-> "Size",
                   message |-> "the size of chunks is not equal to file_size parameter",
                   missing |-> None]))
    ELSE IF scan.missing # <<>>
    THEN CheckOkResult(FALSE,
             Some([error_type |-> "Missing", message |-> "Missing chunk(s)",
                   missing |-> Some(scan.missing)]))
    ELSE CheckOkResult(TRUE, None)

\* what Check::run returns once the options are validated (check.rs)
CheckResultOf(file_size, total_chunks) ==
    LET scan == CheckScan(0, total_chunks, 0, <<>>) IN
    IF scan.missing # <<>>
    THEN CheckOkResult(FALSE,
             Some([error_type |-> "Missing", message |-> "Missing chunk(s)",
                   missing |-> Some(scan.missing)]))
    ELSE IF scan.actual_size # file_size
    THEN CheckOkResult(FALSE,
             Some([error_type |-> "Size",
                   message |-> "the size of chunks is not equal to file_size parameter",
                   missing |-> None]))
    ELSE CheckOkResult(TRUE, None)

\* a smol run_async that looks at the sizes only
CheckAsyncResultOfSizeOnly(file_size, total_chunks) ==
    LET scan == CheckScan(0, total_chunks, 0, <<>>) IN
    IF file_size # scan.actual_size
    THEN [tag |-> "Err",
          error |-> [variant |-> "SizeMismatch", expected |-> file_size,
                     actual |-> scan.actual_size]]
    ELSE [tag |-> "Ok", value |-> "unit"]

\* what the smol run_async returns once the options are validated
CheckAsyncResultOf(file_size, total_chunks) ==
    LET scan == CheckScan(0, total_chunks, 0, <<>>) IN
    IF scan.missing # <<>>
    THEN [tag |-> "Err",
          error |-> [variant |-> "MissingChunks", missing |-> scan.missing]]
    ELSE IF file_size # scan.actual_size
    THEN [tag |-> "Err",
          error |-> [variant |-> "SizeMismatch", expected |-> file_size,
                     actual |-> scan.actual_size]]
    ELSE [tag |-> "Ok", value |-> "unit"]

\* Check is called between the other operations, after Split and before
\* Merge, and once per state of the chunk directory
Quiescent ==
    /\ split.pc \in {"idle", "done"}
    /\ merge.pc = "idle"
    /\ check = CheckNone

CheckInvocation(conv, in_set, file_size, total_chunks, result) ==
    [conv |-> conv, in_set |-> in_set, file_size |-> file_size,
     total_chunks |-> total_chunks, result |-> result]

\* what a Check invocation returns in a convention: "run" (check.rs),
\* "async_std" (async_std/check.rs) or "smol" (smol/check.rs)
CheckOutcome(conv, in_set, file_size, total_chunks) ==
    LET pre == CheckPrecheck(in_set, file_size, total_chunks) IN
    IF pre # "ok" THEN CheckErr(pre)
    ELSE IF conv = "smol"
    THEN CheckAsyncResultOf(file_size[1], total_chunks[1])
    ELSE CheckResultOf(file_size[1], total_chunks[1])

\* Check::run (check.rs): the blocking, result-carrying convention
CheckRun(in_set, file_size, total_chunks) ==
    /\ Quiescent
    /\ check' = CheckInvocation("run", in_set, file_size, total_chunks,
                    CheckOutcome("run", in_set, file_size, total_chunks))
    /\ UNCHANGED <<in_file, dir_kind, dir, out_file, split, merge, dir0, modified>>

\* CheckAsyncExt::run_async (smol/check.rs): the error-carrying convention
CheckRunAsyncSmol(in_set, file_size, total_chunks) ==
    /\ Quiescent
    /\ check' = CheckInvocation("smol", in_set, file_size, total_chunks,
                    CheckOutcome("smol", in_set, file_size, total_chunks))
    /\ UNCHANGED <<in_file, dir_kind, dir, out_file, split, merge, dir0, modified>>

\* CheckAsyncExt::run_async (async_std/check.rs): result-carrying, as Check::run
CheckRunAsyncStd(in_set, file_size, total_chunks) ==
    /\ Quiescent
    /\ check' = CheckInvocation("async_std", in_set, file_size, total_chunks,
                    CheckOutcome("async_std", in_set, file_size, total_chunks))
    /\ UNCHANGED <<in_file, dir_kind, dir, out_file, split, merge, dir0, modified>>

\* the Check invocation reports success, in its convention: Ok(CheckResult
\* { success: true, error: None }) or Ok(())
CheckSucceeded ==
    /\ check.result.tag = "Ok"
    /\ check.conv \in {"run", "async_std"} =>
          check.result.value = [success |-> TRUE, error |-> None]

----------------------------------------------------------------------------
(* Merge::run and its tokio run_async *)

\* the calling conventions of Merge: Merge::run and the tokio run_async
MergeConventions == {"run", "run_async"}

MergeIdle ==
    [pc |-> "idle", conv |-> "run", fault |-> NoFault, in_set |-> FALSE,
     out_set |-> FALSE, out_path |-> OutsideDir, buffer_capacity |-> 0,
     entries |-> <<>>, index |-> 0, pos |-> 0, writer |-> <<>>,
     parents_made |-> FALSE, result |-> None, previous |-> None]

MergeErr(code) == [tag |-> "Err", code |-> code]
MergeOk == [tag |-> "Ok", value |-> TRUE]

\* the option and path checks at the head of Merge::run, in the code's order
MergePrecheck(in_set, out_set) ==
    IF ~in_set THEN "InDirNotSet"
    ELSE IF dir_kind = "absent" THEN "InDirNotFound"
    ELSE IF dir_kind # "dir" THEN "InDirNotDir"
    ELSE IF ~out_set THEN "OutFileNotSet"
    ELSE "ok"

\* the node a path given as out_file resolves to
NodeAt(path) ==
    IF path.at = "outside" THEN out_file
    ELSE IF path.at = "inside" THEN Entry(path.name)
    ELSE [kind |-> dir_kind, data |-> <<>>]

\* the node at the out_file path of the running Merge
OutNode == NodeAt(merge.out_path)

\* the filesystem after the node at path became node: a removal or a
\* creation at the chunk directory's own path takes its entries with it
SetOut(path, node) ==
    IF path.at = "outside"
    THEN out_file' = node /\ UNCHANGED <<dir_kind, dir>>
    ELSE IF path.at = "inside"
    THEN dir' = [dir EXCEPT ![path.name] = node] /\ UNCHANGED <<out_file, dir_kind>>
    ELSE /\ dir_kind' = node.kind
         /\ dir' = IF node.kind = "dir" THEN dir ELSE EmptyDir
         /\ UNCHANGED out_file

\* an open that neither removes nor truncates a file it finds at out_file
OutputOpenedOver(before) ==
    IF before.kind = "file" THEN before ELSE File(<<>>)

\* the node at out_file once what was there (before) is removed and the
\* path opened with create, truncate, write
OutputOpened(before) == File(<<>>)

\* a Merge that clears out_file before it looks at in_dir
OutputLeftClearedFirst(code, before) ==
    IF code \in {"OutFileNotSet", "OutFileNotRemoved"} THEN before
    ELSE IF code = "ok" THEN OutputOpened(before)
    ELSE Absent

\* the node at out_file when the head of Merge::run ends with code, "ok"
\* or the error it returns: what was there (before) when it returns ahead
\* of the removal or the removal fails, nothing when it returns after the
\* removal, a new empty file when the open succeeds
OutputLeft(code, before) ==
    IF code \in {"InDirNotSet", "InDirNotFound", "InDirNotDir",
                 "OutFileNotSet", "OutFileNotRemoved"}
    THEN before
    ELSE IF code = "ok" THEN OutputOpened(before)
    ELSE Absent

\* create_dir_all of out_file's parent was called and returned Ok when the
\* head of Merge::run ends with code
ParentsMade(code) == code \in {"ok", "OutFileNotOpened"}

\* the head of a Merge invocation up to the listing: validation, removal of
\* what is at out_file (before), create_dir_all of its parent,
\* open(create, truncate, write), BufWriter
MergeBegin(conv, fault, in_set, out_set, out_path, buffer_capacity, before, previous) ==
    LET pre == MergePrecheck(in_set, out_set)
        path == IF out_set THEN out_path ELSE OutsideDir
        code == IF pre # "ok" THEN pre
                ELSE IF before.kind # "absent" /\ fault.kind = "remove"
                THEN "OutFileNotRemoved"
                ELSE IF fault.kind = "mkdir" THEN "OutDirNotCreated"
                ELSE IF fault.kind = "open_out" THEN "OutFileNotOpened"
                ELSE "ok"
        called == [MergeIdle EXCEPT !.conv = conv, !.fault = fault,
                       !.in_set = in_set, !.out_set = out_set,
                       !.out_path = path,
                       !.buffer_capacity = buffer_capacity,
                       !.parents_made = ParentsMade(code),
                       !.previous = previous]
    IN /\ merge' = IF code = "ok" THEN [called EXCEPT !.pc = "list"]
                   ELSE [called EXCEPT !.pc = "done",
                                       !.result = Some(MergeErr(code))]
       /\ SetOut(path, OutputLeft(code, before))

\* a call of Merge::run or of the tokio run_async, up to the listing
MergeStart(conv, fault, in_set, out_set, out_path, buffer_capacity) ==
    /\ merge.pc = "idle"
    /\ split.pc \in {"idle", "done"}
    /\ MergeBegin(conv, fault, in_set, out_set, out_path, buffer_capacity,
                  NodeAt(out_path), None)
    /\ check' = CheckNone
    /\ UNCHANGED <<in_file, split, dir0, modified>>

\* a listing that keeps the subdirectories
RegularFilesUnfiltered == {n \in Names : Entry(n).kind # "absent"}

\* the names of the regular files of the chunk directory
RegularFiles == {n \in Names : Entry(n).kind = "file"}

\* the entries for which the directory iterator yields Err
FailedEntries ==
    IF merge.fault.kind = "entry" /\ Entry(merge.fault.name).kind # "absent"
    THEN {merge.fault.name} ELSE {}

\* what the listing collects: Merge::run drops the entries that are Err
\* (filter_map(Result::ok)), the tokio run_async returns InDirNotRead on the
\* first of them (next_entry().await.map_err(..)?)
Listing ==
    IF merge.conv = "run"
    THEN [ok |-> TRUE, files |-> RegularFiles \ FailedEntries]
    ELSE IF FailedEntries # {}
    THEN [ok |-> FALSE, files |-> {}]
    ELSE [ok |-> TRUE, files |-> RegularFiles]

RECURSIVE Orderings(_)
\* the orders in which read_dir may yield the entries of a set
Orderings(S) ==
    IF S = {} THEN {<<>>}
    ELSE UNION {{<<x>> \o rest : rest \in Orderings(S \ {x})} : x \in S}

\* a key that orders the names as strings, by their first character
SortKeyFirstChar(name) == IF ParseUsize(name) < 0 THEN -1 ELSE name[1]

\* the key of sort_by_key: file_name().parse::<usize>()
SortKey(name) == ParseUsize(name)

RECURSIVE InsertByKey(_, _)
\* x placed behind every element whose key is not larger (the sort is stable)
InsertByKey(sorted, x) ==
    IF sorted = <<>> THEN <<x>>
    ELSE IF SortKey(Head(sorted)) <= SortKey(x)
         THEN <<Head(sorted)>> \o InsertByKey(Tail(sorted), x)
         ELSE <<x>> \o sorted

\* entries left in the order read_dir yielded them
SortByKeyUnsorted(entries) == entries

RECURSIVE SortByKey(_)
\* entries.sort_by_key(..): stable, ascending by key
SortByKey(entries) ==
    IF entries = <<>> THEN <<>>
    ELSE InsertByKey(SortByKey(SubSeq(entries, 1, Len(entries) - 1)),
                     entries[Len(entries)])

\* sort_by_key calls the key closure, and with it unwrap, whenever it
\* compares two entries: on every entry of a list of two or more, on none
\* of a shorter list
SortPanics(entries) ==
    Len(entries) >= 2 /\ \E i \in 1..Len(entries) : SortKey(entries[i]) < 0

\* the part of bytes the output file takes when it holds data: all of them,
\* unless writes fail from fault.at bytes on
Accepted(data, bytes) ==
    IF merge.fault.kind = "write"
    THEN SubSeq(bytes, 1,
                Min(Len(bytes),
                    IF merge.fault.at > Len(data)
                    THEN merge.fault.at - Len(data) ELSE 0))
    ELSE bytes

\* the output after the writer's buffer was written out as far as it goes
Flushed ==
    File(OutNode.data \o Accepted(OutNode.data, merge.writer))

\* an output that is deleted when the writer is dropped
DroppedAndRemoved == Absent

\* the output once the BufWriter is dropped on a return before the final
\* flush: the std BufWriter writes out what it holds, the tokio BufWriter
\* discards it
Dropped == IF merge.conv = "run" THEN Flushed ELSE OutNode

\* read_dir, the is_file filter, the InDirNoFile check and the sort; a name
\* that does not parse makes unwrap panic
MergeList ==
    /\ merge.pc = "list"
    /\ IF dir_kind # "dir" \/ merge.fault.kind = "read_dir" \/ ~Listing.ok
       THEN /\ merge' = [merge EXCEPT !.pc = "done",
                            !.result = Some(MergeErr("InDirNotRead"))]
            /\ SetOut(merge.out_path, Dropped)
       ELSE \E entries \in Orderings(Listing.files) :
          IF entries = <<>>
          THEN /\ merge' = [merge EXCEPT !.pc = "done",
                               !.result = Some(MergeErr("InDirNoFile"))]
               /\ SetOut(merge.out_path, Dropped)
          ELSE IF SortPanics(entries)
          THEN /\ merge' = [merge EXCEPT !.pc = "panicked"]
               /\ SetOut(merge.out_path, Dropped)
          ELSE /\ merge' = [merge EXCEPT !.pc = "open", !.index = 1,
                               !.entries = SortByKey(entries)]
               /\ UNCHANGED <<out_file, dir_kind, dir>>
    /\ UNCHANGED <<in_file, split, check, dir0, modified>>

\* for entry in entries: open(read) of the entry, BufReader, buffer
MergeOpen ==
    /\ merge.pc = "open"
    /\ merge.index <= Len(merge.entries)
    /\ LET entry == merge.entries[merge.index] IN
       IF \/ Entry(entry).kind = "absent"
          \/ merge.fault.kind = "open_chunk" /\ merge.fault.name = entry
       THEN /\ merge' = [merge EXCEPT !.pc = "done", !.writer = <<>>,
                            !.result = Some(MergeErr("InFileNotOpened"))]
            /\ SetOut(merge.out_path, Dropped)
       ELSE /\ merge' = [merge EXCEPT !.pc = "read", !.pos = 0]
            /\ UNCHANGED <<out_file, dir_kind, dir>>
    /\ UNCHANGED <<in_file, split, check, dir0, modified>>

\* the entry being copied, and whether its reads fail from here on
MergeEntry == merge.entries[merge.index]

MergeReadFails ==
    /\ merge.fault.kind = "read_chunk"
    /\ merge.fault.name = MergeEntry
    /\ merge.pos >= merge.fault.at
    /\ merge.buffer_capacity > 0

\* the counts one reader.read(&mut buffer) may return, buffer being
\* vec![0; buffer_capacity]: 0 at end of file or for an empty buffer,
\* otherwise anything from 1 to what was asked for and can be read
MergeReadCounts ==
    LET size == Len(Entry(MergeEntry).data)
        readable == IF merge.fault.kind = "read_chunk"
                       /\ merge.fault.name = MergeEntry
                    THEN Min(size, merge.fault.at) ELSE size
        left == readable - merge.pos
    IN IF left <= 0 \/ merge.buffer_capacity = 0 THEN {0}
       ELSE 1..Min(merge.buffer_capacity, left)

\* BufWriter::write_all of bytes: <<what reaches the file, what stays buffered>>
WriteAll(writer, capacity, bytes) ==
    LET spare == capacity - Len(writer) IN
    IF Len(bytes) < spare THEN <<(<<>>), writer \o bytes>>
    ELSE LET flushed == IF Len(bytes) > spare THEN writer ELSE <<>>
             kept == IF Len(bytes) > spare THEN <<>> ELSE writer
         IN IF Len(bytes) >= capacity
            THEN <<flushed \o kept \o bytes, <<>>>>
            ELSE <<flushed, kept \o bytes>>

\* Merge copies the output file into itself: out_file is an entry of in_dir
SelfCopy ==
    merge.out_path.at = "inside" /\ merge.out_path.name = MergeEntry

\* one pass of the copy loop: read, then break on 0 or write_all.  A write
\* that the file does not take in full ends the invocation with
\* OutFileNotWritten: at once in Merge::run; in the tokio run_async, whose
\* File reports a failed write at the next write or flush, by the final
\* flush at the latest, with the same result and the same file content.
MergeRead ==
    /\ merge.pc = "read"
    /\ SelfCopy => Len(OutNode.data) <= MaxSelfCopy
    /\ IF MergeReadFails
       THEN /\ merge' = [merge EXCEPT !.pc = "done", !.writer = <<>>,
                            !.result = Some(MergeErr("InFileNotRead"))]
            /\ SetOut(merge.out_path, Dropped)
       ELSE \E read \in MergeReadCounts :
          IF read = 0
          THEN /\ merge' = [merge EXCEPT !.pc = "open",
                               !.index = merge.index + 1]
               /\ UNCHANGED <<out_file, dir_kind, dir>>
          ELSE LET data == Entry(MergeEntry).data
                   bytes == SubSeq(data, merge.pos + 1, merge.pos + read)
                   w == WriteAll(merge.writer, merge.buffer_capacity, bytes)
                   taken == Accepted(OutNode.data, w[1])
               IN IF taken = w[1]
                  THEN /\ merge' = [merge EXCEPT !.pos = merge.pos + read,
                                                 !.writer = w[2]]
                       /\ SetOut(merge.out_path, File(OutNode.data \o w[1]))
                  ELSE /\ merge' = [merge EXCEPT !.pc = "done",
                                       !.writer = <<>>,
                                       !.result = Some(MergeErr("OutFileNotWritten"))]
                       /\ SetOut(merge.out_path, File(OutNode.data \o taken))
    /\ UNCHANGED <<in_file, split, check, dir0, modified>>

\* writer.flush() after the last entry, then Ok(true)
MergeFinish ==
    /\ merge.pc = "open"
    /\ merge.index > Len(merge.entries)
    /\ merge' = [merge EXCEPT !.pc = "done", !.writer = <<>>,
                    !.result = IF Flushed.data = OutNode.data \o merge.writer
                               THEN Some(MergeOk)
                               ELSE Some(MergeErr("OutFileNotWritten"))]
    /\ SetOut(merge.out_path, Flushed)
    /\ UNCHANGED <<in_file, split, check, dir0, modified>>

\* what a returned Merge invocation left: its convention, its result and
\* the node at its out_file path
MergeOutcome == [conv |-> merge.conv, result |-> merge.result, out |-> OutNode]

\* the same Merge again, right after it returned: same convention, same
\* options, on the filesystem the first call left
MergeAgain ==
    /\ merge.pc = "done"
    /\ merge.previous = None
    /\ MergeBegin(merge.conv, merge.fault, merge.in_set, merge.out_set,
                  merge.out_path, merge.buffer_capacity, OutNode,
                  Some(MergeOutcome))
    /\ UNCHANGED <<in_file, split, check, dir0, modified>>

\* the tokio run_async with the options and the filesystem behaviour of a
\* Merge::run that has returned, the output path put back to what it was
MergeRunAsyncAfterRun ==
    /\ merge.pc = "done"
    /\ merge.conv = "run"
    /\ merge.previous = None
    /\ merge.out_path = OutsideDir
    /\ MergeBegin("run_async", merge.fault, merge.in_set, merge.out_set,
                  merge.out_path, merge.buffer_capacity, dir0.out,
                  Some(MergeOutcome))
    /\ UNCHANGED <<in_file, split, check, dir0, modified>>

----------------------------------------------------------------------------
(* The caller between the operations *)

\* a chunk file is deleted after a successful Split (fs::remove_file by the
\* caller, as in the missing-chunk scenario)
RemoveChunk(name) ==
    /\ split.pc = "done"
    /\ split.result[1].tag = "Ok"
    /\ merge.pc = "idle"
    /\ ~modified
    /\ Entry(name).kind = "file"
    /\ dir' = [dir EXCEPT ![name] = Absent]
    /\ modified' = TRUE
    /\ check' = CheckNone
    /\ UNCHANGED <<in_file, dir_kind, out_file, split, merge, dir0>>

\* what a returned Split invocation left: its result, its input file and
\* its chunk_size
SplitOutcome ==
    [result |-> split.result, input |-> in_file,
     chunk_size |-> split.chunk_size]

\* another file is put at the in_file path after a successful Split, for a
\* Split of it into the same output directory
ReplaceInput(file) ==
    /\ split.pc = "done"
    /\ split.result[1].tag = "Ok"
    /\ split.previous = None
    /\ merge.pc = "idle"
    /\ in_file' = file
    /\ split' = [SplitIdle EXCEPT !.previous = Some(SplitOutcome)]
    /\ check' = CheckNone
    /\ UNCHANGED <<dir_kind, dir, out_file, merge, dir0, modified>>

----------------------------------------------------------------------------
(* Specification Spec: the pipeline.  Split runs on an input file into a   *)
(* chunk directory that is absent, empty, or holds one entry of an earlier *)
(* run; the caller may then delete one chunk, call Check with the sizes    *)
(* Split returned (or one more), and Merge.                                *)

Options(n) == {None} \cup {Some(k) : k \in 0..n}

\* directories holding at most one entry that Split did not write
StaleDirs ==
    {EmptyDir} \cup
    {[EmptyDir EXCEPT ![n] = e] : n \in Names, e \in {Directory, File(<<1>>)}}

Init ==
    /\ in_file \in {Absent, Directory} \cup
                   {File(d) : d \in SeqsUpTo(Byte, MaxFileSize)}
    /\ \/ dir_kind \in {"absent", "file"} /\ dir = EmptyDir
       \/ dir_kind = "dir" /\ dir \in StaleDirs
    /\ out_file = Absent
    /\ split = SplitIdle
    /\ check = CheckNone
    /\ merge = MergeIdle
    /\ dir0 = [kind |-> dir_kind, entries |-> dir, out |-> out_file,
               input |-> in_file]
    /\ modified = FALSE

\* the options the caller gives Check after a successful Split: the sizes
\* Split returned, each as returned or one more
SizeAfterSplit(d) == Some(split.result[1].file_size + d)
ChunksAfterSplit(d) == Some(split.result[1].total_chunks + d)

\* Split has returned Ok(SplitResult)
SplitSucceeded ==
    split.pc = "done" /\ split.result # None /\ split.result[1].tag = "Ok"

CheckRunAfterSplit(d_size, d_chunks) ==
    /\ SplitSucceeded
    /\ CheckRun(TRUE, SizeAfterSplit(d_size), ChunksAfterSplit(d_chunks))

CheckRunAsyncSmolAfterSplit(d_size, d_chunks) ==
    /\ SplitSucceeded
    /\ CheckRunAsyncSmol(TRUE, SizeAfterSplit(d_size), ChunksAfterSplit(d_chunks))

CheckRunAsyncStdAfterSplit(d_size, d_chunks) ==
    /\ SplitSucceeded
    /\ CheckRunAsyncStd(TRUE, SizeAfterSplit(d_size), ChunksAfterSplit(d_chunks))

MergeStartAfterSplit(conv, in_set, out_set, buffer_capacity) ==
    /\ split.pc = "done"
    /\ MergeStart(conv, NoFault, in_set, out_set, OutsideDir, buffer_capacity)

Next ==
    \/ \E in_set \in BOOLEAN, out_set \in BOOLEAN, chunk_size \in 0..MaxChunkSize :
          SplitStart(in_set, out_set, chunk_size)
    \/ SplitRead
    \/ SplitOpenChunk
    \/ SplitWriteChunk
    \/ SplitReturn
    \/ \E name \in Names : RemoveChunk(name)
    \/ \E d_size \in 0..1, d_chunks \in 0..1 :
          \/ CheckRunAfterSplit(d_size, d_chunks)
          \/ CheckRunAsyncSmolAfterSplit(d_size, d_chunks)
          \/ CheckRunAsyncStdAfterSplit(d_size, d_chunks)
    \/ \E conv \in MergeConventions, in_set \in BOOLEAN, out_set \in BOOLEAN,
          buffer_capacity \in 0..MaxBufferCapacity :
          MergeStartAfterSplit(conv, in_set, out_set, buffer_capacity)
    \/ MergeList
    \/ MergeOpen
    \/ MergeRead
    \/ MergeFinish

Spec == Init /\ [][Next]_vars

----------------------------------------------------------------------------
(* Specification SpecCheck: Check, in each convention and with any options, *)
(* on an arbitrary chunk directory: each of the first MaxEntries indices is *)
(* absent, a subdirectory or a regular file.                                *)

\* the directories over the names S: each name absent, a subdirectory or a
\* regular file with content from C, at most k names present
DirsOver(S, C, k) ==
    {d \in [Names -> {Absent, Directory} \cup {File(c) : c \in C}] :
        /\ \A n \in Names \ S : d[n] = Absent
        /\ Cardinality({n \in S : d[n] # Absent}) <= k}

CheckDirNames == {to_string(i) : i \in 0..(MaxEntries - 1)}

InitCheck ==
    /\ in_file = Absent
    /\ \/ dir_kind \in {"absent", "file"} /\ dir = EmptyDir
       \/ /\ dir_kind = "dir"
          /\ dir \in DirsOver(CheckDirNames,
                               {ZeroBuffer(n) : n \in 0..MaxEntryLen}, MaxEntries)
    /\ out_file = Absent
    /\ split = SplitIdle
    /\ check = CheckNone
    /\ merge = MergeIdle
    /\ dir0 = [kind |-> dir_kind, entries |-> dir, out |-> out_file,
               input |-> in_file]
    /\ modified = FALSE

NextCheck ==
    \E in_set \in BOOLEAN, file_size \in Options(MaxCheckSize),
       total_chunks \in Options(MaxCheckChunks) :
       \/ CheckRun(in_set, file_size, total_chunks)
       \/ CheckRunAsyncSmol(in_set, file_size, total_chunks)
       \/ CheckRunAsyncStd(in_set, file_size, total_chunks)

SpecCheck == InitCheck /\ [][NextCheck]_vars

----------------------------------------------------------------------------
(* Specification SpecMerge: Merge, with any options, on an arbitrary chunk  *)
(* directory over the names "1", "2", "10" and "01", with the output path   *)
(* absent, a regular file or a directory beforehand.                        *)

MergeDirNames == {<<1>>, <<2>>, <<1, 0>>, <<0, 1>>}

InitMerge ==
    /\ in_file = Absent
    /\ \/ dir_kind \in {"absent", "file"} /\ dir = EmptyDir
       \/ /\ dir_kind = "dir"
          /\ dir \in DirsOver(MergeDirNames, SeqsUpTo(Byte, MaxEntryLen),
                               MaxEntries)
    /\ out_file \in {Absent, Directory, File(<<1>>)}
    /\ split = SplitIdle
    /\ check = CheckNone
    /\ merge = MergeIdle
    /\ dir0 = [kind |-> dir_kind, entries |-> dir, out |-> out_file,
               input |-> in_file]
    /\ modified = FALSE

NextMerge ==
    \/ \E conv \in MergeConventions, in_set \in BOOLEAN, out_set \in BOOLEAN,
          buffer_capacity \in 0..MaxBufferCapacity :
          MergeStart(conv, NoFault, in_set, out_set, OutsideDir, buffer_capacity)
    \/ MergeList
    \/ MergeOpen
    \/ MergeRead
    \/ MergeFinish

SpecMerge == InitMerge /\ [][NextMerge]_vars

----------------------------------------------------------------------------
(* Specification SpecMergeTwice: Merge called twice in a row with the same  *)
(* options, on a chunk directory over the names "1", "10" and "01", the     *)
(* output path being absent, a regular file or a directory, empty or not,   *)
(* before the first call.                                                   *)

TwiceDirNames == {<<1>>, <<1, 0>>, <<0, 1>>}

InitMergeTwice ==
    /\ in_file = Absent
    /\ \/ dir_kind \in {"absent", "file"} /\ dir = EmptyDir
       \/ /\ dir_kind = "dir"
          /\ dir \in DirsOver(TwiceDirNames, SeqsUpTo(Byte, MaxEntryLen),
                               MaxEntries)
    /\ out_file \in {Absent, Directory, Tree(<<1>>), File(<<1>>)}
    /\ split = SplitIdle
    /\ check = CheckNone
    /\ merge = MergeIdle
    /\ dir0 = [kind |-> dir_kind, entries |-> dir, out |-> out_file,
               input |-> in_file]
    /\ modified = FALSE

NextMergeTwice ==
    \/ \E conv \in MergeConventions, in_set \in BOOLEAN, out_set \in BOOLEAN,
          buffer_capacity \in 0..MaxBufferCapacity :
          MergeStart(conv, NoFault, in_set, out_set, OutsideDir, buffer_capacity)
    \/ MergeList
    \/ MergeOpen
    \/ MergeRead
    \/ MergeFinish
    \/ MergeAgain

SpecMergeTwice == InitMergeTwice /\ [][NextMergeTwice]_vars

----------------------------------------------------------------------------
(* Specification SpecMergeFaults: Merge, in both conventions, on a chunk    *)
(* directory over the names "1", "2" and "10", with at most one filesystem  *)
(* call of the invocation failing; after Merge::run has returned, the tokio *)
(* run_async is called with the same options on the same filesystem.        *)

FaultDirNames == {<<1>>, <<2>>, <<1, 0>>}

\* the failures of one invocation: none, or one of the calls Merge makes
MergeFaults ==
    {NoFault}
    \cup {Fault(k, <<>>, 0) : k \in {"remove", "mkdir", "open_out", "read_dir"}}
    \cup {Fault(k, n, 0) : k \in {"entry", "open_chunk"}, n \in FaultDirNames}
    \cup {Fault("read_chunk", n, a) : n \in FaultDirNames, a \in 0..MaxEntryLen}
    \cup {Fault("write", <<>>, a) : a \in 0..(MaxEntries * MaxEntryLen - 1)}

InitMergeFaults ==
    /\ in_file = Absent
    /\ dir_kind = "dir"
    /\ dir \in DirsOver(FaultDirNames, SeqsUpTo(Byte, MaxEntryLen), MaxEntries)
    /\ out_file \in {Absent, File(<<1>>)}
    /\ split = SplitIdle
    /\ check = CheckNone
    /\ merge = MergeIdle
    /\ dir0 = [kind |-> dir_kind, entries |-> dir, out |-> out_file,
               input |-> in_file]
    /\ modified = FALSE

NextMergeFaults ==
    \/ \E conv \in MergeConventions, fault \in MergeFaults,
          buffer_capacity \in 0..MaxBufferCapacity :
          MergeStart(conv, fault, TRUE, TRUE, OutsideDir, buffer_capacity)
    \/ MergeList
    \/ MergeOpen
    \/ MergeRead
    \/ MergeFinish
    \/ MergeRunAsyncAfterRun

SpecMergeFaults == InitMergeFaults /\ [][NextMergeFaults]_vars

----------------------------------------------------------------------------
(* Specification SpecReaders: Check and Merge on an arbitrary chunk         *)
(* directory, the output path of Merge being anywhere: outside the chunk    *)
(* directory, the chunk directory itself, or an entry of it, present or not *)

\* the paths given to Merge as out_file
OutPaths == {OutsideDir, TheDirItself, InsideDir(<<2>>), InsideDir(<<3>>)}

InitReaders ==
    /\ in_file = Absent
    /\ \/ dir_kind \in {"absent", "file"} /\ dir = EmptyDir
       \/ /\ dir_kind = "dir"
          /\ dir \in DirsOver(MergeDirNames, SeqsUpTo(Byte, MaxEntryLen),
                               MaxEntries)
    /\ out_file \in {Absent, File(<<1>>)}
    /\ split = SplitIdle
    /\ check = CheckNone
    /\ merge = MergeIdle
    /\ dir0 = [kind |-> dir_kind, entries |-> dir, out |-> out_file,
               input |-> in_file]
    /\ modified = FALSE

\* Merge called with out_file anywhere, on the directory as it was placed
MergeStartAnywhere(conv, in_set, out_set, out_path, buffer_capacity) ==
    /\ check = CheckNone
    /\ MergeStart(conv, NoFault, in_set, out_set, out_path, buffer_capacity)

NextReaders ==
    \/ \E in_set \in BOOLEAN, file_size \in Options(1),
          total_chunks \in Options(MaxCheckChunks) :
          \/ CheckRun(in_set, file_size, total_chunks)
          \/ CheckRunAsyncSmol(in_set, file_size, total_chunks)
          \/ CheckRunAsyncStd(in_set, file_size, total_chunks)
    \/ \E conv \in MergeConventions, in_set \in BOOLEAN, out_set \in BOOLEAN,
          out_path \in OutPaths, buffer_capacity \in 0..MaxBufferCapacity :
          MergeStartAnywhere(conv, in_set, out_set, out_path, buffer_capacity)
    \/ MergeList
    \/ MergeOpen
    \/ MergeRead
    \/ MergeFinish

SpecReaders == InitReaders /\ [][NextReaders]_vars

----------------------------------------------------------------------------
(* Specification SpecSplit: Split alone, with any chunk_size and any       *)
(* buffer_capacity, on an input file that lies outside an absent or empty  *)
(* output directory, or inside the output directory under the name "0" or  *)
(* "1", with at most one filesystem call of the invocation failing.        *)

\* the names of the chunks a Split of the longest input can write
ChunkNames == {to_string(i) : i \in 0..(MaxFileSize - 1)}

\* the failures of one invocation: none, or one of the calls Split makes
SplitFaults ==
    {NoFault}
    \cup {Fault(k, <<>>, 0) : k \in {"mkdir", "open_in", "metadata"}}
    \cup {Fault("read", <<>>, a) : a \in 0..MaxFileSize}
    \cup {Fault("open_chunk", n, 0) : n \in ChunkNames}
    \cup {Fault("write", n, a) : n \in ChunkNames, a \in 0..(MaxChunkSize - 1)}

\* the paths given to Split as in_file
SplitInPaths == {OutsideDir, InsideDir(<<0>>), InsideDir(<<1>>)}

InitSplit ==
    /\ in_file \in {File(d) : d \in SeqsUpTo(Byte, MaxFileSize)}
    /\ \/ dir_kind = "absent" /\ dir = EmptyDir
       \/ /\ dir_kind = "dir"
          /\ dir \in {EmptyDir} \cup
                     {[EmptyDir EXCEPT ![p.name] = in_file] :
                         p \in SplitInPaths \ {OutsideDir}}
    /\ out_file = Absent
    /\ split = SplitIdle
    /\ check = CheckNone
    /\ merge = MergeIdle
    /\ dir0 = [kind |-> dir_kind, entries |-> dir, out |-> out_file,
               input |-> in_file]
    /\ modified = FALSE

\* the input file is where the path says: an entry of the output directory,
\* or a file outside an output directory that is absent or empty
InputIsAt(in_path) ==
    IF in_path.at = "inside"
    THEN dir_kind = "dir" /\ dir[in_path.name] = in_file
    ELSE dir = EmptyDir

\* Split called with in_file anywhere and with a failing call, if any
SplitStartAnywhere(fault, in_path, chunk_size, buffer_capacity) ==
    /\ split.pc = "idle"
    /\ InputIsAt(in_path)
    /\ SplitBegin(fault, in_path, TRUE, TRUE, chunk_size, buffer_capacity, None)
    /\ UNCHANGED <<in_file, out_file, check, merge, dir0, modified>>

NextSplit ==
    \/ \E fault \in SplitFaults, in_path \in SplitInPaths,
          chunk_size \in 0..MaxChunkSize,
          buffer_capacity \in 0..MaxBufferCapacity :
          SplitStartAnywhere(fault, in_path, chunk_size, buffer_capacity)
    \/ SplitRead
    \/ SplitOpenChunk
    \/ SplitWriteChunk
    \/ SplitReturn

SpecSplit == InitSplit /\ [][NextSplit]_vars

\* Split::run is straight-line code on one thread, and the tokio run_async
\* is polled until it completes: a step that can be taken is taken
SpecSplitFair ==
    /\ SpecSplit
    /\ WF_vars(SplitRead)
    /\ WF_vars(SplitOpenChunk)
    /\ WF_vars(SplitWriteChunk)
    /\ WF_vars(SplitReturn)

----------------------------------------------------------------------------
(* Specification SpecResplit: Split of a file into an absent or empty      *)
(* directory, Split of another file into the same directory, then Merge of *)
(* the directory.                                                          *)

InitResplit ==
    /\ in_file \in {File(d) : d \in SeqsUpTo(Byte, MaxFileSize)}
    /\ dir_kind \in {"absent", "dir"}
    /\ dir = EmptyDir
    /\ out_file = Absent
    /\ split = SplitIdle
    /\ check = CheckNone
    /\ merge = MergeIdle
    /\ dir0 = [kind |-> dir_kind, entries |-> dir, out |-> out_file,
               input |-> in_file]
    /\ modified = FALSE

\* Merge of the directory after the second Split has returned
MergeStartAfterResplit(conv, buffer_capacity) ==
    /\ split.previous # None
    /\ MergeStartAfterSplit(conv, TRUE, TRUE, buffer_capacity)

NextResplit ==
    \/ \E chunk_size \in 1..MaxChunkSize : SplitStart(TRUE, TRUE, chunk_size)
    \/ SplitRead
    \/ SplitOpenChunk
    \/ SplitWriteChunk
    \/ SplitReturn
    \/ \E d \in SeqsUpTo(Byte, MaxFileSize) : ReplaceInput(File(d))
    \/ \E conv \in MergeConventions, buffer_capacity \in 1..MaxBufferCapacity :
          MergeStartAfterResplit(conv, buffer_capacity)
    \/ MergeList
    \/ MergeOpen
    \/ MergeRead
    \/ MergeFinish

SpecResplit == InitResplit /\ [][NextResplit]_vars

----------------------------------------------------------------------------
(* Specification SpecCheckMerge: Check, in each convention, on an arbitrary *)
(* chunk directory over the names "0", "1", "2" and "x", and, when it       *)
(* reported success, Merge of the same directory.                           *)

CheckMergeNames == {<<0>>, <<1>>, <<2>>, <<LetterX>>}

InitCheckMerge ==
    /\ in_file = Absent
    /\ dir_kind = "dir"
    /\ dir \in DirsOver(CheckMergeNames, SeqsUpTo(Byte, MaxEntryLen), MaxEntries)
    /\ out_file = Absent
    /\ split = SplitIdle
    /\ check = CheckNone
    /\ merge = MergeIdle
    /\ dir0 = [kind |-> dir_kind, entries |-> dir, out |-> out_file,
               input |-> in_file]
    /\ modified = FALSE

\* Merge of the directory that Check has just reported complete
MergeStartAfterCheck(conv, buffer_capacity) ==
    /\ merge.pc = "idle"
    /\ check.conv # "none"
    /\ CheckSucceeded
    /\ MergeBegin(conv, NoFault, TRUE, TRUE, OutsideDir, buffer_capacity,
                  NodeAt(OutsideDir), None)
    /\ UNCHANGED <<in_file, split, check, dir0, modified>>

NextCheckMerge ==
    \/ \E file_size \in 0..MaxCheckSize, total_chunks \in 0..MaxCheckChunks :
          \/ CheckRun(TRUE, Some(file_size), Some(total_chunks))
          \/ CheckRunAsyncSmol(TRUE, Some(file_size), Some(total_chunks))
          \/ CheckRunAsyncStd(TRUE, Some(file_size), Some(total_chunks))
    \/ \E conv \in MergeConventions, buffer_capacity \in 1..MaxBufferCapacity :
          MergeStartAfterCheck(conv, buffer_capacity)
    \/ MergeList
    \/ MergeOpen
    \/ MergeRead
    \/ MergeFinish

SpecCheckMerge == InitCheckMerge /\ [][NextCheckMerge]_vars

----------------------------------------------------------------------------
(* Properties of the pipeline (specification Spec) *)

\* the chunk directory was absent or empty when Split started
FreshDir ==
    \/ dir0.kind = "absent"
    \/ dir0.kind = "dir" /\ dir0.entries = EmptyDir

\* Merge was called with both paths set and has returned
MergeReturned == merge.pc = "done" /\ merge.in_set /\ merge.out_set

\* p is a prefix of s, proper or not
IsPrefix(p, s) == Len(p) <= Len(s) /\ SubSeq(s, 1, Len(p)) = p

\* ceil(a / b) for b >= 1
CeilDiv(a, b) == (a + b - 1) \div b

\* the bytes [from, to) of the input file
SourceBytes(from, to) == SubSeq(in_file.data, from + 1, to)

\* C1 (round trip): Split of a non-empty file with chunk_size >= 1 into a
\* chunk directory that was absent or empty, followed by Merge of the
\* untouched directory (Merge's buffer_capacity positive, as by default),
\* returns Ok(true) and leaves an output file whose bytes equal the input's.
C1_RoundTrip ==
    (/\ SplitSucceeded
     /\ in_file.data # <<>>
     /\ split.chunk_size >= 1
     /\ FreshDir
     /\ ~modified
     /\ MergeReturned
     /\ merge.buffer_capacity >= 1)
    => /\ merge.result = Some(MergeOk)
       /\ out_file = File(in_file.data)

\* C1 witness: a three-byte file split into chunks of two bytes and merged
\* back through a one-byte buffer
C1_Witness ==
    /\ SplitSucceeded
    /\ Len(in_file.data) = 3
    /\ split.chunk_size = 2
    /\ FreshDir
    /\ ~modified
    /\ MergeReturned
    /\ merge.buffer_capacity = 1
    /\ merge.result = Some(MergeOk)
    /\ out_file = File(in_file.data)

\* C2 (chunk layout): after a successful Split with chunk_size >= 1, under
\* every pattern of short reads, chunk i holds exactly the source bytes
\* [i * chunk_size, min((i + 1) * chunk_size, file_size)); every chunk but
\* the last has length chunk_size and the last has length
\* file_size - chunk_size * (total_chunks - 1), which lies in 1..chunk_size.
C2_ChunkLayout ==
    (SplitSucceeded /\ split.chunk_size >= 1 /\ ~modified)
    => LET r == split.result[1]
           cs == split.chunk_size
       IN \A i \in 0..(r.total_chunks - 1) :
             LET chunk == Entry(to_string(i)) IN
             /\ chunk = File(SourceBytes(i * cs,
                                         Min((i + 1) * cs, r.file_size)))
             /\ i < r.total_chunks - 1 => Len(chunk.data) = cs
             /\ i = r.total_chunks - 1 =>
                   /\ Len(chunk.data) = r.file_size - cs * (r.total_chunks - 1)
                   /\ Len(chunk.data) \in 1..cs

\* C2 witness: three bytes in chunks of two, the last chunk one byte long,
\* written over a buffer that still held the previous chunk
C2_Witness ==
    /\ SplitSucceeded
    /\ ~modified
    /\ split.chunk_size = 2
    /\ split.result[1].total_chunks = 2
    /\ Len(Entry(<<0>>).data) = 2
    /\ Len(Entry(<<1>>).data) = 1

\* C3 (chunk count law): a successful Split with chunk_size >= 1 returns
\* total_chunks = ceil(file_size / chunk_size) when file_size > 0 (at least
\* one chunk, no trailing empty chunk on an exact multiple), and returns
\* total_chunks = 0 and creates no chunk file when file_size = 0.
C3_ChunkCount ==
    (SplitSucceeded /\ split.chunk_size >= 1)
    => LET r == split.result[1] IN
       /\ r.file_size = Len(in_file.data)
       /\ r.file_size > 0 =>
             /\ r.total_chunks = CeilDiv(r.file_size, split.chunk_size)
             /\ r.total_chunks >= 1
       /\ r.file_size = 0 =>
             /\ r.total_chunks = 0
             /\ ~modified => dir = dir0.entries

\* C3 witness: a file of exactly two chunks (an exact multiple of chunk_size)
C3_Witness ==
    /\ SplitSucceeded
    /\ split.chunk_size = 1
    /\ Len(in_file.data) = 2
    /\ split.result[1].total_chunks = 2

\* Check was called with the sizes the Split returned
CheckMatchesSplit ==
    /\ check.conv # "none"
    /\ check.in_set
    /\ check.file_size = Some(split.result[1].file_size)
    /\ check.total_chunks = Some(split.result[1].total_chunks)

\* C4 (check success): Check on the unmodified chunk directory of a
\* successful Split with chunk_size >= 1, given the file_size and
\* total_chunks that Split returned, reports success in every convention.
C4_CheckSuccess ==
    (SplitSucceeded /\ split.chunk_size >= 1 /\ ~modified /\ CheckMatchesSplit)
    => CheckSucceeded

\* C4 witness: a successful blocking Check of a two-chunk Split output
C4_Witness ==
    /\ SplitSucceeded
    /\ split.chunk_size >= 1
    /\ ~modified
    /\ CheckMatchesSplit
    /\ check.conv = "run"
    /\ split.result[1].total_chunks = 2
    /\ CheckSucceeded

----------------------------------------------------------------------------
(* Properties of Check on any directory (specification SpecCheck) *)

\* Check got past its option and path checks and scanned the directory
CheckScanned ==
    /\ check.conv # "none"
    /\ check.in_set
    /\ dir_kind = "dir"
    /\ check.file_size # None
    /\ check.total_chunks # None

\* the expected indices with no regular file of that name
MissingIndices ==
    {i \in 0..(check.total_chunks[1] - 1) : Entry(to_string(i)).kind # "file"}

RECURSIVE Ascending(_)
\* the elements of a set of numbers, smallest first
Ascending(S) ==
    IF S = {} THEN <<>>
    ELSE LET m == CHOOSE x \in S : \A y \in S : x <= y
         IN <<m>> \o Ascending(S \ {m})

RECURSIVE SumOfLengths(_)
\* the summed length of the chunk files with the indices in S
SumOfLengths(S) ==
    IF S = {} THEN 0
    ELSE LET i == CHOOSE x \in S : TRUE
         IN Len(Entry(to_string(i)).data) + SumOfLengths(S \ {i})

\* the list of a missing-chunks outcome, in either convention; <<-1>> when
\* the outcome is another one
MissingReported ==
    IF check.conv = "smol"
    THEN (IF check.result.tag = "Err" /\ check.result.error.variant = "MissingChunks"
          THEN check.result.error.missing ELSE <<-1>>)
    ELSE (IF /\ check.result.tag = "Ok"
             /\ ~check.result.value.success
             /\ check.result.value.error # None
             /\ check.result.value.error[1].error_type = "Missing"
             /\ check.result.value.error[1].missing # None
          THEN check.result.value.error[1].missing[1] ELSE <<-1>>)

IsMissingOutcome == MissingReported # <<-1>>

IsSizeOutcome ==
    IF check.conv = "smol"
    THEN check.result.tag = "Err" /\ check.result.error.variant = "SizeMismatch"
    ELSE /\ check.result.tag = "Ok"
         /\ ~check.result.value.success
         /\ check.result.value.error # None
         /\ check.result.value.error[1].error_type = "Size"

\* C5 (missing-chunk detection): whenever some index below total_chunks has
\* no regular file of its name (absent, or a subdirectory), Check reports
\* the missing-chunks outcome, and its list is exactly all such indices in
\* ascending order: the scan does not stop at the first one.
C5_MissingDetection ==
    (CheckScanned /\ MissingIndices # {})
    => MissingReported = Ascending(MissingIndices)

\* C5 witness: of three expected chunks only chunk 1 is there, and the
\* blocking Check reports [0, 2]
C5_Witness ==
    /\ CheckScanned
    /\ check.conv = "run"
    /\ check.total_chunks = Some(3)
    /\ Entry(<<1>>).kind = "file"
    /\ MissingReported = <<0, 2>>

\* C6 (completeness before size): when an expected index is missing Check
\* reports missing-chunks and never size-mismatch, also when the present
\* chunks' summed size differs from file_size; size-mismatch is reported
\* only when every index below total_chunks is present.
C6_MissingPrecedence ==
    CheckScanned =>
       /\ MissingIndices # {} => IsMissingOutcome /\ ~IsSizeOutcome
       /\ IsSizeOutcome => MissingIndices = {}

\* C6 witness: a chunk is missing and the sizes differ too; missing-chunks
\* is what the blocking Check reports
C6_Witness ==
    /\ CheckScanned
    /\ check.conv = "run"
    /\ MissingIndices # {}
    /\ SumOfLengths((0..(check.total_chunks[1] - 1)) \ MissingIndices)
          # check.file_size[1]
    /\ Entry(<<0>>).kind = "file"
    /\ IsMissingOutcome

\* C7 (size-mismatch detection), as claimed: with every expected chunk
\* present and file_size different from the chunks' summed length, Check
\* yields a size-mismatch outcome carrying expected = file_size and
\* actual = the summed length, in every calling convention.
C7_SizeMismatchCarriesSizes ==
    (/\ CheckScanned
     /\ MissingIndices = {}
     /\ SumOfLengths(0..(check.total_chunks[1] - 1)) # check.file_size[1])
    => /\ IsSizeOutcome
       /\ LET outcome == IF check.conv = "smol" THEN check.result.error
                          ELSE check.result.value.error[1]
          IN /\ {"expected", "actual"} \subseteq DOMAIN outcome
             /\ outcome.expected = check.file_size[1]
             /\ outcome.actual = SumOfLengths(0..(check.total_chunks[1] - 1))

----------------------------------------------------------------------------
(* Properties of Merge on any directory (specification SpecMerge) *)

\* the names under which the chunk directory holds a regular file
FilesInDir == {n \in Names : dir_kind = "dir" /\ dir[n].kind = "file"}

RECURSIVE DecimalValue(_)
\* the number a string of decimal digits denotes
DecimalValue(s) ==
    IF s = <<>> THEN 0
    ELSE DecimalValue(SubSeq(s, 1, Len(s) - 1)) * 10 + s[Len(s)]

RECURSIVE Concat(_)
\* the contents of the chunk directory's files, in the order of the names
Concat(names) ==
    IF names = <<>> THEN <<>>
    ELSE Entry(Head(names)).data \o Concat(Tail(names))

\* the orders of the regular files that ascend in numeric value
AscendingOrders ==
    {o \in Orderings(FilesInDir) :
        \A i \in 1..(Len(o) - 1) : DecimalValue(o[i]) <= DecimalValue(o[i + 1])}

\* no two regular files have names of the same numeric value
DistinctValues ==
    \A a, b \in FilesInDir : DecimalValue(a) = DecimalValue(b) => a = b

MergeSucceeded == MergeReturned /\ merge.result = Some(MergeOk)

\* C8 as claimed: a successful Merge of a directory whose regular files all
\* have decimal names writes the concatenation of their contents in
\* ascending numeric value of the names, whatever order the directory is
\* enumerated in.
C8_NumericOrderAnyNames ==
    (MergeSucceeded /\ merge.buffer_capacity >= 1)
    => \A o \in AscendingOrders : out_file = File(Concat(o))

\* C8 amended: a successful Merge (buffer_capacity >= 1) of a directory
\* whose regular files have decimal names of pairwise distinct numeric
\* value writes the concatenation of their contents in ascending numeric
\* value of the names ("10" after "2"), whatever the enumeration order and
\* ignoring subdirectories.
C8_NumericOrder ==
    (MergeSucceeded /\ merge.buffer_capacity >= 1 /\ DistinctValues)
    => /\ AscendingOrders # {}
       /\ \A o \in AscendingOrders : out_file = File(Concat(o))

\* C8 witness: files "2", "10" and "1" merged into B1 ++ B2 ++ B10
C8_Witness ==
    /\ MergeSucceeded
    /\ merge.buffer_capacity >= 1
    /\ FilesInDir = {<<1>>, <<2>>, <<1, 0>>}
    /\ Entry(<<1>>).data = <<0>>
    /\ Entry(<<2>>).data = <<1>>
    /\ Entry(<<1, 0>>).data = <<0>>
    /\ out_file = File(<<0, 1, 0>>)

\* C9 (empty input directory): Merge of an existing directory without any
\* regular file (empty, or holding only subdirectories) returns
\* Err(InDirNoFile), never Ok.
C9_NoInputFiles ==
    (MergeReturned /\ dir_kind = "dir" /\ FilesInDir = {})
    => merge.result = Some(MergeErr("InDirNoFile"))

\* C9 witness: a directory holding only a subdirectory
C9_Witness ==
    /\ MergeReturned
    /\ dir_kind = "dir"
    /\ FilesInDir = {}
    /\ Entry(<<2>>).kind = "dir"
    /\ merge.result = Some(MergeErr("InDirNoFile"))

\* C10 as claimed: after Merge failed with InDirNoFile there is no file at
\* the output path (whatever was there before the call Merge removes, so a
\* file there is one Merge created).
C10_NoOutputAfterNoFile ==
    (MergeReturned /\ merge.result = Some(MergeErr("InDirNoFile")))
    => out_file.kind # "file"

----------------------------------------------------------------------------
(* Merge always returns (specification Spec) *)

\* C11 as claimed: every invocation of Merge ends by returning Ok(true) or
\* a MergeError; a regular file in the input directory whose name is not a
\* decimal number does not make Merge abort.
C11_MergeAlwaysReturns ==
    merge.pc # "panicked"

----------------------------------------------------------------------------
(* The calling conventions of Check (specification SpecCheck) *)

\* a result-carrying outcome r and an error-carrying outcome e say the same:
\* an operation failure is the same CheckError in both, success is Ok(()),
\* error_type Missing with list L is Err(MissingChunks { missing: L }) and
\* error_type Size is Err(SizeMismatch)
Agree(r, e) ==
    IF r.tag = "Err"
    THEN e = r
    ELSE IF r.value.success
    THEN r.value.error = None /\ e = [tag |-> "Ok", value |-> "unit"]
    ELSE /\ r.value.error # None
         /\ e.tag = "Err"
         /\ IF r.value.error[1].error_type = "Missing"
            THEN /\ e.error.variant = "MissingChunks"
                 /\ r.value.error[1].missing = Some(e.error.missing)
            ELSE /\ r.value.error[1].error_type = "Size"
                 /\ e.error.variant = "SizeMismatch"

----------------------------------------------------------------------------
(* The blocking Check on a Split output (specification Spec) *)

\* C13 as claimed: on the untouched output of a Split of N chunks into a
\* fresh directory, Check::run with total_chunks = N + 1 returns
\* Err(CheckError::MissingChunks(..)), and with file_size + 1 (and N) it
\* returns Err(CheckError::SizeMismatch(..)); never an Ok value.
C13_BlockingCheckReturnsErr ==
    (/\ SplitSucceeded /\ split.chunk_size >= 1 /\ FreshDir /\ ~modified
     /\ check.conv = "run" /\ check.in_set)
    => LET r == split.result[1] IN
       /\ (/\ check.file_size = Some(r.file_size)
           /\ check.total_chunks = Some(r.total_chunks + 1))
          => /\ check.result.tag = "Err"
             /\ check.result.error.variant = "MissingChunks"
       /\ (/\ check.file_size = Some(r.file_size + 1)
           /\ check.total_chunks = Some(r.total_chunks))
          => /\ check.result.tag = "Err"
             /\ check.result.error.variant = "SizeMismatch"

----------------------------------------------------------------------------
(* Merge under failing filesystem calls (specification SpecMergeFaults) *)

\* the reads of both invocations returned the same counts: every read is of
\* one byte, the buffer or the chunks being no longer
SameReads ==
    merge.buffer_capacity <= 1 \/ \A n \in Names : Len(Entry(n).data) <= 1

\* the tokio run_async has returned, after a Merge::run with the same
\* options on the same filesystem with the same failing call
BothReturned ==
    /\ merge.pc = "done"
    /\ merge.conv = "run_async"
    /\ merge.previous # None
    /\ merge.previous[1].conv = "run"
    /\ SameReads

\* C14 as claimed: for the same options and the same filesystem behaviour,
\* a failing call included, Merge::run and the tokio run_async return the
\* same Ok / MergeError and leave the same output file.
C14_BlockingAndTokioAgree ==
    BothReturned
    => /\ merge.result = merge.previous[1].result
       /\ out_file = merge.previous[1].out

----------------------------------------------------------------------------
(* The validation of Split (specification Spec) *)

\* the first of Split's checks that fails for the options given and the
\* filesystem as it was before the call, input checks before output checks
SplitFirstFailure ==
    CASE ~split.in_set -> "InFileNotSet"
      [] split.in_set /\ in_file.kind = "absent" -> "InFileNotFound"
      [] split.in_set /\ in_file.kind = "dir" -> "InFileNotFile"
      [] split.in_set /\ in_file.kind = "file" /\ ~split.out_set
            -> "OutDirNotSet"
      [] split.in_set /\ in_file.kind = "file" /\ split.out_set
            /\ dir0.kind = "file" -> "OutDirNotDir"
      [] OTHER -> "none"

\* no Merge with out_file inside the chunk directory has run
DirLeftToSplit == ~modified /\ merge.out_path = OutsideDir

\* C15 (validation order): a called Split fails with the reason of the first
\* failing check in the order InFileNotSet, InFileNotFound, InFileNotFile,
\* OutDirNotSet, OutDirNotDir; when a check fails the chunk directory is as
\* it was (no directory created, no chunk written), and when none fails an
\* absent output directory has been created.
C15_SplitValidationOrder ==
    (split.pc # "idle" /\ DirLeftToSplit)
    => /\ SplitFirstFailure # "none"
          => /\ split.pc = "done"
             /\ split.result = Some(SplitErr(SplitFirstFailure))
             /\ dir_kind = dir0.kind
             /\ dir = dir0.entries
       /\ SplitFirstFailure = "none"
          => /\ dir_kind = "dir"
             /\ split.pc = "done" /\ split.result[1].tag = "Err"
                => split.result[1].code
                      \notin {"InFileNotSet", "InFileNotFound", "InFileNotFile",
                              "OutDirNotSet", "OutDirNotDir"}

\* C15 witness: the input path is a directory and the output directory is
\* unset and absent: the input failure is the one reported and no
\* directory was created
C15_Witness ==
    /\ split.pc = "done"
    /\ split.in_set
    /\ in_file.kind = "dir"
    /\ ~split.out_set
    /\ dir0.kind = "absent"
    /\ split.result = Some(SplitErr("InFileNotFile"))
    /\ dir_kind = "absent"

----------------------------------------------------------------------------
(* Operation failures and outcomes of Check (specification SpecCheck) *)

\* the first of Check's checks that fails for the options of the last
\* invocation: the directory first, then file_size, then total_chunks
CheckFirstFailure ==
    CASE ~check.in_set -> "InDirNotSet"
      [] check.in_set /\ dir_kind = "absent" -> "InDirNotFound"
      [] check.in_set /\ dir_kind = "file" -> "InDirNotDir"
      [] check.in_set /\ dir_kind = "dir" /\ check.file_size = None
            -> "FileSizeNotSet"
      [] check.in_set /\ dir_kind = "dir" /\ check.file_size # None
            /\ check.total_chunks = None -> "TotalChunksNotSet"
      [] OTHER -> "none"

\* the Check invocation failed as an operation, with this CheckError
CheckFailedWith(code) ==
    /\ check.result.tag = "Err"
    /\ check.result.error.variant = code

\* C16 (could not run / ran and found problems): an unset, absent or
\* non-directory in_dir, an unset file_size and an unset total_chunks each
\* give their own CheckError, the first failing check in that order, and
\* never a missing-chunks or size-mismatch outcome; such an outcome occurs
\* only with all three options set and in_dir an existing directory.
C16_FailuresAndOutcomes ==
    check.conv # "none"
    => /\ CheckFirstFailure # "none"
          => /\ CheckFailedWith(CheckFirstFailure)
             /\ ~IsMissingOutcome
             /\ ~IsSizeOutcome
       /\ (IsMissingOutcome \/ IsSizeOutcome)
          => /\ CheckScanned
             /\ CheckFirstFailure = "none"

\* C16 witness: in_dir is a directory lacking chunk 0, but file_size is
\* unset: the blocking Check fails with FileSizeNotSet, not with an outcome
C16_Witness ==
    /\ check.conv = "run"
    /\ check.in_set
    /\ dir_kind = "dir"
    /\ Entry(<<0>>).kind = "absent"
    /\ check.file_size = None
    /\ check.total_chunks = Some(1)
    /\ CheckFailedWith("FileSizeNotSet")

----------------------------------------------------------------------------
(* Merge and what occupies the output path (specification SpecMergeTwice) *)

\* C17 (the output path is replaced): whatever was at out_file before the
\* call (nothing, a regular file, a directory, empty or not), after a
\* successful Merge it is a regular file holding exactly the concatenation
\* of the directory's files in ascending numeric order, nothing of the
\* earlier content; the same Merge called again returns the same result
\* and, the names being chunk names (distinct numbers), leaves the same
\* output as the first call.
C17_OutputReplaced ==
    /\ (MergeSucceeded /\ merge.buffer_capacity >= 1)
       => /\ out_file.kind = "file"
          /\ \E o \in AscendingOrders : out_file.data = Concat(o)
    /\ (merge.pc = "done" /\ merge.previous # None)
       => /\ merge.result = merge.previous[1].result
          /\ DistinctValues => out_file = merge.previous[1].out

\* C17 witness: out_file was a non-empty directory; Merge succeeded twice
\* and the output is the two-byte concatenation of chunks "1" and "10"
C17_Witness ==
    /\ dir0.out = Tree(<<1>>)
    /\ MergeSucceeded
    /\ merge.buffer_capacity >= 1
    /\ merge.previous # None
    /\ merge.previous[1].result = Some(MergeOk)
    /\ FilesInDir = {<<1>>, <<1, 0>>}
    /\ out_file = File(<<1, 0>>)
    /\ out_file = merge.previous[1].out

----------------------------------------------------------------------------
(* Merge after a failure in the copy (specification SpecMergeFaults) *)

\* Merge returned one of the errors of the copy loop
CopyFailed ==
    /\ merge.pc = "done"
    /\ merge.result \in {Some(MergeErr(code)) :
                            code \in {"InFileNotOpened", "InFileNotRead",
                                      "OutFileNotWritten"}}

\* C18 (no cleanup on failure): when opening or reading a chunk or writing
\* the output fails during the copy, Merge returns that error at the
\* failing chunk, without going on to a later one; the output file it had
\* created is still there, and holds a prefix (empty, proper or whole) of
\* the concatenation of the chunks in ascending numeric order.
C18_NoCleanupOnFailure ==
    CopyFailed
    => /\ out_file.kind = "file"
       /\ \E o \in AscendingOrders : IsPrefix(out_file.data, Concat(o))
       /\ merge.fault.kind \in {"open_chunk", "read_chunk"}
          => /\ MergeEntry = merge.fault.name
             /\ merge.result =
                   Some(MergeErr(IF merge.fault.kind = "open_chunk"
                                 THEN "InFileNotOpened" ELSE "InFileNotRead"))
       /\ merge.fault.kind = "write"
          => merge.result = Some(MergeErr("OutFileNotWritten"))

\* C18 witness: chunk "1" was copied, chunk "2" cannot be opened;
\* Merge::run returned InFileNotOpened and the output holds chunk "1" only
C18_Witness ==
    /\ CopyFailed
    /\ merge.conv = "run"
    /\ merge.fault = Fault("open_chunk", <<2>>, 0)
    /\ FilesInDir = {<<1>>, <<2>>}
    /\ Entry(<<1>>).data = <<1>>
    /\ Entry(<<2>>).data = <<0>>
    /\ merge.result = Some(MergeErr("InFileNotOpened"))
    /\ out_file = File(<<1>>)

----------------------------------------------------------------------------
(* Check and Merge as readers of the chunk directory (specification        *)
(* SpecReaders)                                                             *)

\* C19 as claimed: after any Check or Merge invocation, succeeding or
\* failing, and for every output path given to Merge, every entry of the
\* input directory is still there with its content and none has been added.
C19_ReadersLeaveDirectory ==
    (check.conv # "none" \/ merge.pc # "idle")
    => /\ dir_kind = dir0.kind
       /\ dir = dir0.entries

----------------------------------------------------------------------------
(* Merge and a directory it cannot list (specification SpecMergeFaults) *)

\* the listing of the returned Merge met a failure: read_dir failed, or the
\* iterator yielded Err for an entry of the directory
ListingFailed ==
    /\ merge.pc = "done"
    /\ \/ merge.fault.kind = "read_dir"
       \/ /\ merge.fault.kind = "entry"
          /\ Entry(merge.fault.name).kind # "absent"

\* C20 as claimed: if the input directory cannot be read, or reading one of
\* its entries fails during the listing, Merge fails with InDirNotRead; it
\* does not leave the entry out and merge the others.
C20_ListingErrorsReported ==
    ListingFailed => merge.result = Some(MergeErr("InDirNotRead"))

----------------------------------------------------------------------------
(* The order of Split's steps (specification SpecSplit) *)

\* Split was called on an input file outside an absent or empty out_dir
SplitIntoFresh == split.pc # "idle" /\ split.in_path = OutsideDir

\* the final content of chunk i: the source bytes
\* [i * chunk_size, min((i + 1) * chunk_size, file_size))
FinalChunk(i) ==
    SourceBytes(i * split.chunk_size,
                Min((i + 1) * split.chunk_size, Len(in_file.data)))

\* at every point of a Split into a fresh directory: chunks 0..k-1 are
\* there with their final content, k being the chunks completed so far;
\* chunk k is there only while it is being written or after its write
\* failed, holding a prefix of its final content; nothing else is there;
\* and Split has taken from its reader the bytes of chunks 0..k-1 and
\* offset bytes of chunk k, none of chunk k + 1
SplitInIndexOrder ==
    LET k == split.total_chunks IN
    /\ \A i \in 0..(k - 1) : Entry(to_string(i)) = File(FinalChunk(i))
    /\ \A n \in Names :
          Entry(n) # Absent => \E i \in 0..k : n = to_string(i)
    /\ Entry(to_string(k)) # Absent
          => /\ \/ split.pc = "write"
                \/ /\ split.pc = "done"
                   /\ split.result = Some(SplitErr("OutFileNotWritten"))
             /\ Entry(to_string(k)).kind = "file"
             /\ IsPrefix(Entry(to_string(k)).data, FinalChunk(k))
    /\ split.pos - Len(split.reader)
          = Min(k * split.chunk_size, Len(in_file.data)) + split.offset
    /\ split.offset <= split.chunk_size

\* C21 amended (index order inside one invocation): in Split, the chunk
\* file for index i is opened, written, flushed and closed before Split
\* takes any byte of chunk i + 1 from its buffered reader (which may have
\* fetched later bytes of the input file already), and the chunk files are
\* created in the order 0, 1, 2, ...; at every intermediate point of a Split
\* into a fresh directory, the point of an I/O failure included, the chunk
\* files present are exactly 0..k-1 plus at most one chunk k in progress,
\* and each completed chunk has its final content.  The steps are those of
\* the tokio variant too, which suspends at each filesystem call.
C21_IndexOrder ==
    SplitIntoFresh => SplitInIndexOrder

\* C21 as claimed: the same, and no byte of chunk i + 1 has been read from
\* the input file before chunk i is closed.
C21_IndexOrderAtTheFile ==
    SplitIntoFresh
    => /\ SplitInIndexOrder
       /\ split.pos <= (split.total_chunks + 1) * split.chunk_size

\* C21 witness: chunk 0 is complete with its two bytes, chunk 1 has been
\* created and is still empty
C21_Witness ==
    /\ SplitIntoFresh
    /\ split.pc = "write"
    /\ split.total_chunks = 1
    /\ Len(Entry(<<0>>).data) = 2
    /\ Entry(<<1>>) = File(<<>>)

----------------------------------------------------------------------------
(* Split returns (specification SpecSplitFair) *)

\* the index a chunk name stands for
ChunkIndex(name) == CHOOSE i \in 0..MaxFileSize : to_string(i) = name

\* what a Split with chunk_size >= 1 of an input file outside a fresh
\* output directory has to return: the error of the one call that fails,
\* if the invocation gets to make it, and otherwise the size of the input
\* and ceil(file_size / chunk_size) chunks
SplitExpected ==
    LET f == split.fault
        size == Len(in_file.data)
        chunks == CeilDiv(size, split.chunk_size)
    IN CASE f.kind = "mkdir" /\ dir0.kind = "absent"
                -> SplitErr("OutDirNotCreated")
         [] f.kind = "open_in" -> SplitErr("InFileNotOpened")
         [] f.kind = "metadata" -> SplitErr("InFileNotRead")
         [] f.kind = "read" /\ f.at <= size -> SplitErr("InFileNotRead")
         [] f.kind = "open_chunk" /\ ChunkIndex(f.name) < chunks
                -> SplitErr("OutFileNotOpened")
         [] /\ f.kind = "write"
            /\ ChunkIndex(f.name) < chunks
            /\ f.at < Len(FinalChunk(ChunkIndex(f.name)))
                -> SplitErr("OutFileNotWritten")
         [] OTHER -> SplitOk(size, chunks)

\* the chunk files in the output directory
ChunkFiles == {n \in Names : Entry(n).kind = "file"}

\* a returned Split stopped where it had to: with Ok at a chunk attempt
\* that accumulated nothing, exactly total_chunks chunk files written; with
\* the error of the failing call, no chunk begun after it
SplitStoppedRight ==
    (split.pc = "done" /\ split.chunk_size >= 1 /\ split.in_path = OutsideDir)
    => /\ split.result = Some(SplitExpected)
       /\ split.result[1].tag = "Ok"
          => /\ split.offset = 0
             /\ split.pos = Len(in_file.data)
             /\ ChunkFiles = {to_string(i) :
                                 i \in 0..(split.result[1].total_chunks - 1)}
       /\ split.result[1].tag = "Err"
          => ChunkFiles =
                {to_string(i) :
                    i \in 0..(IF split.result[1].code = "OutFileNotWritten"
                              THEN split.total_chunks
                              ELSE split.total_chunks - 1)}

\* C22 (Split terminates): for every input file, every chunk_size >= 1 and
\* every pattern of short reads, a called Split eventually returns; it
\* returns Ok at the first chunk attempt that accumulates zero bytes, after
\* having written exactly total_chunks chunk files, and it returns the
\* error of the first failing read or write at once, the call not being
\* made again and no later chunk begun.
C22_SplitTerminates ==
    /\ (split.pc # "idle" /\ split.chunk_size >= 1) ~> (split.pc = "done")
    /\ []SplitStoppedRight

\* C22 witness: three bytes read through a one-byte reader into chunks of
\* two; Split returned Ok with two chunks after an attempt that read nothing
C22_Witness ==
    /\ split.pc = "done"
    /\ split.in_path = OutsideDir
    /\ split.fault = NoFault
    /\ split.chunk_size = 2
    /\ split.buffer_capacity = 1
    /\ split.result = Some(SplitOk(3, 2))
    /\ split.offset = 0
    /\ ChunkFiles = {<<0>>, <<1>>}

----------------------------------------------------------------------------
(* Split and its input file (specification SpecSplit) *)

\* C30 as claimed: after Split has returned, with Ok or with any
\* SplitError, the input file exists with exactly the content it had before
\* the call, for every output directory, one that holds the input file
\* under a decimal name (in_file = out_dir/0) included.
C30_InputUnmodified ==
    split.pc = "done" => in_file = dir0.input

----------------------------------------------------------------------------
(* Split into a directory that was used before (specification SpecResplit) *)

\* a file A was split into the directory, and then a file B of fewer chunks
\* was split into the same directory
ResplitFewer ==
    /\ SplitSucceeded
    /\ split.previous # None
    /\ split.result[1].total_chunks
          < split.previous[1].result[1].total_chunks

\* C24 as claimed: after Split of A into D and then Split of B, of fewer
\* chunks, into the same D, the directory holds exactly the chunk files
\* 0..total_chunks(B)-1 and no other regular file, and Merge of D
\* reproduces B byte for byte.
C24_ResplitLeavesOnlyNewChunks ==
    ResplitFewer
    => /\ ChunkFiles =
             {to_string(i) : i \in 0..(split.result[1].total_chunks - 1)}
       /\ MergeReturned
             => /\ merge.result = Some(MergeOk)
                /\ out_file = File(in_file.data)

----------------------------------------------------------------------------
(* Check and then Merge (specification SpecCheckMerge) *)

\* the names of chunks 0..n-1, in index order
IndexOrder(n) == [i \in 1..n |-> to_string(i - 1)]

\* C25 as claimed: if Check succeeds for (in_dir, file_size, total_chunks)
\* with total_chunks >= 1, Merge of the same unchanged directory succeeds
\* and its output has exactly file_size bytes, namely chunks
\* 0..total_chunks-1 concatenated in index order, whatever other entries
\* the directory holds.
C25_CheckedMeansMergeable ==
    (/\ check.conv # "none"
     /\ CheckSucceeded
     /\ check.total_chunks[1] >= 1
     /\ merge.pc \in {"done", "panicked"})
    => /\ merge.result = Some(MergeOk)
       /\ out_file = File(Concat(IndexOrder(check.total_chunks[1])))
       /\ Len(out_file.data) = check.file_size[1]

----------------------------------------------------------------------------
(* The result of Split for any chunk_size (specification Spec) *)

\* C26 as claimed: for every chunk_size >= 0, chunk_size = 0 included,
\* whenever Split returns Ok(SplitResult) the lengths of the chunk files
\* 0..total_chunks-1 it wrote sum to exactly result.file_size: Split never
\* reports success for a non-empty input while writing no chunk.
C26_SplitSelfConsistent ==
    (SplitSucceeded /\ ~modified)
    => /\ SumOfLengths(0..(split.result[1].total_chunks - 1))
             = split.result[1].file_size
       /\ split.result[1].file_size > 0 => split.result[1].total_chunks >= 1

----------------------------------------------------------------------------
(* Merge for any buffer_capacity (specification SpecMerge) *)

\* C27 as claimed: for every buffer_capacity >= 0, 0 included, whenever
\* Merge returns Ok(true) the output file equals the full concatenation of
\* all chunk files in numeric order: a read that returns zero bytes ends a
\* chunk only when the chunk is exhausted.
C27_AnyBufferCapacity ==
    MergeSucceeded
    => \E o \in AscendingOrders : out_file = File(Concat(o))

----------------------------------------------------------------------------
(* The pipeline on a zero-length input (specification Spec) *)

\* Split has returned Ok for a zero-length input file and a chunk directory
\* that was absent or empty, and nothing was removed since
SplitOfEmptyInput ==
    SplitSucceeded /\ dir0.input = File(<<>>) /\ FreshDir /\ ~modified

\* C28 as claimed: for a zero-length input Split returns Ok with file_size 0
\* and total_chunks 0 and writes no chunk file; Check with (0, 0) on that
\* directory reports success; Merge on that directory then fails with
\* InDirNoFile and produces no output, empty or not.
C28_ZeroLengthPipeline ==
    SplitOfEmptyInput
    => /\ split.result[1].file_size = 0
       /\ split.result[1].total_chunks = 0
       /\ dir_kind = "dir" /\ dir = EmptyDir
       /\ (check.conv # "none" /\ check.in_set
             /\ check.file_size = Some(0) /\ check.total_chunks = Some(0))
          => CheckSucceeded
       /\ MergeReturned
          => /\ merge.result = Some(MergeErr("InDirNoFile"))
             /\ out_file = Absent

----------------------------------------------------------------------------
(* The output path while Merge validates its input (specification          *)
(* SpecMergeTwice)                                                          *)

\* Merge has returned one of the errors of its in_dir validation
MergeInputRejected ==
    /\ merge.pc = "done"
    /\ merge.result \in {Some(MergeErr("InDirNotSet")),
                         Some(MergeErr("InDirNotFound")),
                         Some(MergeErr("InDirNotDir"))}

\* C29: when Merge fails with InDirNotSet, InDirNotFound or InDirNotDir,
\* what was at the output path before the call (a file, a directory, or
\* nothing) is there unchanged, and Merge has not created the parents of
\* the output path.
C29_OutputUntouchedOnInvalidInput ==
    MergeInputRejected
    => /\ out_file = dir0.out
       /\ ~merge.parents_made

\* an output directory with a file in it survives a Merge whose in_dir
\* does not exist, out_file being set
C29_Witness ==
    /\ MergeInputRejected
    /\ merge.out_set
    /\ merge.result = Some(MergeErr("InDirNotFound"))
    /\ dir0.out = Tree(<<1>>)
    /\ out_file = Tree(<<1>>)

====
